---- MODULE Spec2Model ----
(***************************************************************************)
(* Chesster: message dispatch, league resolution and index refresh.        *)
(*                                                                         *)
(* Texts are sequences of symbols: a symbol is one word, one blank " " or  *)
(* the mention token of a user.  JavaScript's undefined is the string      *)
(* "undefined" where the value is otherwise a string, and the empty        *)
(* sequence where the value is otherwise a match array.                    *)
(***************************************************************************)
EXTENDS Integers, Sequences, FiniteSets, TLC

\* ------------------------------------------------------------------ bounds
\* How many listeners hears() registers before the model stops registering.
MaxListeners == 2
\* How many times refresh() runs before the model stops firing its timer.
MaxRefresh == 2

\* ------------------------------------------------------------------ values
Undefined == "undefined"

\* The bot's own user id (SlackBot.controller.id, botUserId).
BotId == "UBOT"
Mention(id) == "<@" \o id \o ">"
Blank == " "

HearsEventType == {"ambient", "direct_message", "direct_mention", "bot_message"}
ListenerTypes == {"command", "league_command"}

\* String.prototype.toLowerCase on the symbols of the model.
toLowerCase(s) ==
    CASE s = "HELP" -> "help"
      [] s = "CONSTRUCTOR" -> "constructor"
      [] s = "ALICE" -> "alice"
      [] s = "Alice" -> "alice"
      [] s = "BOB" -> "bob"
      [] s = "PAIRINGS" -> "pairings"
      [] s = "LoneWolf" -> "lonewolf"
      [] s = "LONEWOLF" -> "lonewolf"
      [] s = "U0164C6FXLK" -> "u0164c6fxlk"
      [] s = "U2" -> "u2"
      [] s = "U3" -> "u3"
      [] s = "U9" -> "u9"
      [] s = "UBOT" -> "ubot"
      [] s = "C016G6T5QTW" -> "c016g6t5qtw"
      [] s = "C08JZJNU8UC" -> "c08jzjnu8uc"
      [] s = "CBLITZ" -> "cblitz"
      [] s = "CGEN" -> "cgen"
      [] s = "CX" -> "cx"
      [] s = "D1" -> "d1"
      [] s = "G1" -> "g1"
      [] OTHER -> s

\* String.prototype.toUpperCase on the symbols of the model.
toUpperCase(s) ==
    CASE s = "help" -> "HELP"
      [] s = "pairings" -> "PAIRINGS"
      [] s = "lonewolf" -> "LONEWOLF"
      [] s = "LoneWolf" -> "LONEWOLF"
      [] s = "alice" -> "ALICE"
      [] s = "Alice" -> "ALICE"
      [] s = "constructor" -> "CONSTRUCTOR"
      [] s = "u2" -> "U2"
      [] s = "u3" -> "U3"
      [] s = "d1" -> "D1"
      [] s = "bob" -> "BOB"
      [] s = "lakinwecker" -> "LAKINWECKER"
      [] OTHER -> s

\* ------------------------------------------------------------------ patterns
\* A RegExp of a listener: /word/i, or /^word$/i when anchored.
Pattern(word, anchored) == [word |-> word, anchored |-> anchored]

RECURSIVE firstIndexOf(_, _, _)
firstIndexOf(text, word, i) ==
    IF i > Len(text) THEN 0
    ELSE IF toLowerCase(text[i]) = word THEN i
    ELSE firstIndexOf(text, word, i + 1)

\* text.match(pattern): the match array (element 1 is the matched substring as
\* it stands in the text), or <<>> for null.
match(text, pattern) ==
    IF pattern.anchored
    THEN IF Len(text) = 1 /\ toLowerCase(text[1]) = pattern.word
         THEN <<text[1]>> ELSE <<>>
    ELSE LET i == firstIndexOf(text, pattern.word, 1)
         IN IF i = 0 THEN <<>> ELSE <<text[i]>>

\* ------------------------------------------------------------------ listeners
Listener(type, messageTypes, patterns, middleware) ==
    [type |-> type, messageTypes |-> messageTypes,
     patterns |-> patterns, middleware |-> middleware]

\* The listeners hears() is called with.
ListenerChoices ==
    { Listener("command", {"direct_message", "ambient", "direct_mention"},
               <<Pattern("help", TRUE)>>, <<>>),
      Listener("command", {"ambient", "direct_mention"},
               <<Pattern("pairings", FALSE), Pattern("help", FALSE)>>,
               <<"requiresLeague", "requiresModerator">>),
      Listener("command", {"direct_message"},
               <<Pattern("help", FALSE)>>, <<"upperCase">>),
      Listener("command", {"bot_message"},
               <<Pattern("help", FALSE)>>, <<>>),
      Listener("command", {"ambient", "direct_mention", "direct_message"},
               <<Pattern("help", FALSE)>>, <<"requiresModerator", "upperCase">>),
      Listener("league_command", {"direct_message", "ambient", "direct_mention"},
               <<Pattern("pairings", FALSE)>>, <<>>),
      Listener("league_command", {"ambient", "direct_mention"},
               <<Pattern("help", FALSE), Pattern("pairings", FALSE)>>,
               <<"requiresModerator", "upperCase">>),
      Listener("league_command", {"direct_message", "ambient", "direct_mention"},
               <<Pattern("pairings", FALSE)>>, <<"upperCase">>),
      Listener("league_command", {"direct_mention", "direct_message"},
               <<Pattern("help", TRUE)>>, <<"requiresLeague">>) }

\* ------------------------------------------------------------------ matching
Context(dm, mention, ambient, bot) ==
    [isDirectMessage |-> dm, isDirectMention |-> mention,
     isAmbient |-> ambient, isBotMessage |-> bot]

doesListenerWantMessageType(listener, context) ==
    IF context.isDirectMessage /\ "direct_message" \in listener.messageTypes
    THEN TRUE
    ELSE IF context.isDirectMention /\ "direct_mention" \in listener.messageTypes
    THEN TRUE
    ELSE IF context.isAmbient /\ "ambient" \in listener.messageTypes
    THEN TRUE
    ELSE IF context.isBotMessage /\ "bot_message" \in listener.messageTypes
    THEN TRUE
    ELSE FALSE

\* The inner loop over listener.patterns: the first non-null match array.
RECURSIVE firstPatternMatch(_, _, _)
firstPatternMatch(patterns, text, j) ==
    IF j > Len(patterns) THEN <<>>
    ELSE LET matches == match(text, patterns[j])
         IN IF matches # <<>> THEN matches
            ELSE firstPatternMatch(patterns, text, j + 1)

\* findMatchingListener's null.
NoListener == [listener |-> 0, matches |-> <<>>]

RECURSIVE findFrom(_, _, _, _)
findFrom(ls, text, context, i) ==
    IF i > Len(ls) THEN NoListener
    ELSE IF ~doesListenerWantMessageType(ls[i], context)
    THEN findFrom(ls, text, context, i + 1)
    ELSE LET matches == firstPatternMatch(ls[i].patterns, text, 1)
         IN IF matches # <<>> THEN [listener |-> i, matches |-> matches]
            ELSE findFrom(ls, text, context, i + 1)

\* Mutant: the category filter is dropped.
findMatchingListener_anyCategory(ls, text, context) ==
    findFrom(ls, text, Context(TRUE, TRUE, TRUE, TRUE), 1)

\* The listener is returned by its position in the list (its identity).
findMatchingListener(ls, text, context) == findFrom(ls, text, context, 1)

\* ------------------------------------------------------------------ config
\* config.leagues: the leagues of the configuration.
LeagueNames == {"45+45", "lonewolf", "blitzbattle", "chess960"}

\* league.getAllLeagues(bot): the leagues in configuration order.
getAllLeagues == <<"45+45", "lonewolf", "blitzbattle", "chess960">>

\* l.config.alsoKnownAs of each league; 'classical' is configured for two
\* leagues.
alsoKnownAs(l) ==
    CASE l = "45+45" -> <<"4545", "classical">>
      [] l = "lonewolf" -> <<"lw", "classical">>
      [] l = "chess960" -> <<"960">>
      [] OTHER -> <<>>

\* config.channelMap: channel name or channel id -> league name.
channelMapKeys ==
    {"C016G6T5QTW", "dev-testing", "lonewolf-games", "dev-testing-blitz",
     "C08JZJNU8UC"}

channelMap(key) ==
    CASE key = "C016G6T5QTW" -> "45+45"
      [] key = "dev-testing" -> "45+45"
      [] key = "lonewolf-games" -> "lonewolf"
      [] key = "dev-testing-blitz" -> "blitz"
      [] key = "C08JZJNU8UC" -> "lonewolf"
      [] OTHER -> Undefined

\* config.pingMods: channel id -> the user ids of its moderators to ping.
pingModsKeys == {"C016G6T5QTW"}
pingMods(channelId) ==
    IF channelId = "C016G6T5QTW" THEN {"U0164C6FXLK"} ELSE {}

\* league.getLeague(bot, name): the league of that name, or undefined.
leagueGetLeague(name) == IF name \in LeagueNames THEN name ELSE Undefined

\* League.isModerator(lichessUsername).
leagueModerators(l) == IF l = "45+45" THEN {"lakinwecker"} ELSE {}
isModerator(l, lichessUsername) == lichessUsername \in leagueModerators(l)

\* ------------------------------------------------------------------ world
\* The channels Slack knows; CX is an id conversations.info does not resolve.
ChannelIds == {"C016G6T5QTW", "C08JZJNU8UC", "CBLITZ", "CGEN", "D1"}
UnknownChannel == "CX"

ChannelRecord(id, name, isIm, isGroup) ==
    [id |-> id, name |-> name, is_im |-> isIm, is_group |-> isGroup]

channelOf(id) ==
    CASE id = "C016G6T5QTW" -> ChannelRecord(id, "unstable-bot", FALSE, FALSE)
      [] id = "C08JZJNU8UC" -> ChannelRecord(id, "lonewolf-games", FALSE, FALSE)
      [] id = "CBLITZ" -> ChannelRecord(id, "dev-testing-blitz", FALSE, FALSE)
      [] id = "CGEN" -> ChannelRecord(id, "general", FALSE, FALSE)
      [] id = "D1" -> ChannelRecord(id, Undefined, TRUE, FALSE)

\* The records of bot.users; U9 is a user id the index does not hold.
UserIds == {"U0164C6FXLK", "U2"}
UnknownUser == "U9"

UserRecord(id, name, lichess) ==
    [id |-> id, name |-> name, lichess_username |-> lichess]

userOf(id) ==
    CASE id = "U0164C6FXLK" -> UserRecord(id, "lakinwecker", "lakinwecker")
      [] id = "U2" -> UserRecord(id, "alice", "alice")

\* bot.users.getByNameOrID(key): by id first, then by name or lichess
\* username; the id of the record found, or undefined.
usersGetByNameOrID(key) ==
    IF key \in UserIds THEN key
    ELSE LET named == {u \in UserIds :
                         \/ userOf(u).name = toLowerCase(key)
                         \/ userOf(u).lichess_username = toLowerCase(key)}
         IN IF named = {} THEN Undefined ELSE CHOOSE u \in named : TRUE

\* ------------------------------------------------------------------ lookup
\* A JavaScript object used as a map is a function on the keys it holds.
NoEntries == [k \in {} |-> <<>>]
isDefined(map, key) == key \in DOMAIN map
put(map, key, value) ==
    [k \in DOMAIN map \cup {key} |-> IF k = key THEN value ELSE map[k]]

\* new SlackEntityLookup(...): the four maps, empty.
SlackEntityLookup ==
    [byName |-> NoEntries, byId |-> NoEntries,
     nameDuplicates |-> NoEntries, idDuplicates |-> NoEntries]

\* The result of a lookup: the entity found, or undefined.
NoEntity == [found |-> FALSE]
Found(entity) == [found |-> TRUE, entity |-> entity]

\* The maps are object literals ({}): reading a key they do not hold
\* themselves yields the member of Object.prototype of that name, if there is
\* one. 'constructor' stands for those members; none has an upper-case name.
ObjectPrototypeKeys == {"constructor"}
ObjectPrototypeMember(key) == [inherited |-> key]

\* map[key]: the value the map holds, the inherited member, or undefined.
read(map, key) ==
    IF key \in DOMAIN map THEN Found(map[key])
    ELSE IF key \in ObjectPrototypeKeys THEN Found(ObjectPrototypeMember(key))
    ELSE NoEntity

\* Mutant: the list of an id is started afresh by every add.
addByIdWithDuplicate_fresh(lookup, id, entity) ==
    [lookup EXCEPT !.idDuplicates = put(@, id, <<entity>>),
                   !.byId = put(@, id, entity)]

addByIdWithDuplicate(lookup, id, entity) ==
    [lookup EXCEPT
        !.idDuplicates = IF isDefined(lookup.byId, id)
                         THEN put(@, id, Append(@[id], entity))
                         ELSE put(@, id, <<entity>>),
        !.byId = put(@, id, entity)]

\* Mutant: the first entity under a name is not put in the list.
addByNameWithDuplicate_fromSecond(lookup, key, entity) ==
    [lookup EXCEPT
        !.nameDuplicates = IF isDefined(lookup.byName, key)
                           THEN put(@, key, IF isDefined(@, key)
                                            THEN Append(@[key], entity)
                                            ELSE <<entity>>)
                           ELSE @,
        !.byName = put(@, key, entity)]

addByNameWithDuplicate(lookup, key, entity) ==
    [lookup EXCEPT
        !.nameDuplicates = IF isDefined(lookup.byName, key)
                           THEN put(@, key, Append(@[key], entity))
                           ELSE put(@, key, <<entity>>),
        !.byName = put(@, key, entity)]

\* entity.id.startsWith('D'): the ids of IM channels.
startsWithD(id) == id \in {"D1"}

\* Users carry lichess_username; channels have no such field.
lichessUsernameOf(entity) ==
    IF "lichess_username" \in DOMAIN entity THEN entity.lichess_username
    ELSE Undefined

\* _addByNameWithDuplicate throws a TypeError: this.byName[key] is defined,
\* by the map itself or by inheritance, and this.nameDuplicates[key] is not
\* a list the map holds, so .push is not a function of it.
addByNameThrows(lookup, key) ==
    /\ read(lookup.byName, key).found
    /\ ~isDefined(lookup.nameDuplicates, key)

\* The name keys add(entity) registers, in order: the name, then the
\* lichess username.
nameKeysOf(entity) ==
    IF startsWithD(entity.id) \/ entity.name = Undefined THEN <<>>
    ELSE (IF entity.name # "" THEN <<toLowerCase(entity.name)>> ELSE <<>>)
         \o (IF lichessUsernameOf(entity) # Undefined
             THEN <<toLowerCase(lichessUsernameOf(entity))>> ELSE <<>>)

\* The registrations of keys from the k-th on; a throw ends them, and what
\* was registered before it stays.
RECURSIVE addByNames(_, _, _, _)
addByNames(lookup, keys, k, entity) ==
    IF k > Len(keys) THEN [lookup |-> lookup, threw |-> FALSE]
    ELSE IF addByNameThrows(lookup, keys[k])
    THEN [lookup |-> lookup, threw |-> TRUE]
    ELSE addByNames(addByNameWithDuplicate(lookup, keys[k], entity), keys,
                    k + 1, entity)

\* SlackEntityLookup.add(entity): the lookup it leaves, and whether it threw.
addCall(lookup, entity) ==
    addByNames(addByIdWithDuplicate(lookup, toUpperCase(entity.id), entity),
               nameKeysOf(entity), 1, entity)

add(lookup, entity) == addCall(lookup, entity).lookup
addThrows(lookup, entity) == addCall(lookup, entity).threw

\* SlackEntityLookup.getByNameOrID(nameOrId).
getByNameOrID(lookup, nameOrId) ==
    IF read(lookup.byId, toUpperCase(nameOrId)).found
    THEN read(lookup.byId, toUpperCase(nameOrId))
    ELSE read(lookup.byName, toLowerCase(nameOrId))

\* SlackEntityLookup.getIdDuplicates(id).
getIdDuplicates(lookup, id) ==
    IF isDefined(lookup.idDuplicates, toUpperCase(id))
    THEN lookup.idDuplicates[toUpperCase(id)]
    ELSE <<>>

\* ------------------------------------------------------------------ refresh
\* heltour.getUserMap: lichess username -> Slack id, in the order of its keys;
\* updatesUsers adds chesster -> controller.id when the controller is set.
getUserMap ==
    << [lichessUsername |-> "lakinwecker", slackID |-> "U0164C6FXLK"],
       [lichessUsername |-> "alice", slackID |-> "U2"],
       [lichessUsername |-> "alice2", slackID |-> "U2"] >>

slackIDByLichessUsername(controller) ==
    IF controller # Undefined
    THEN Append(getUserMap, [lichessUsername |-> "chesster", slackID |-> controller])
    ELSE getUserMap

\* lichessUsernameBySlackID[slackID]: the last username mapped to the id.
lichessUsernameBySlackID(userMap, slackID) ==
    LET hits == SelectSeq(userMap, LAMBDA e : e.slackID = slackID)
    IN IF hits = <<>> THEN Undefined
       ELSE toLowerCase(hits[Len(hits)].lichessUsername)

\* The pages of users.list in a refresh cycle: bob joins after the first.
usersList(cycle) ==
    << << [id |-> "U0164C6FXLK", name |-> "lakinwecker"] >>,
       IF cycle = 1 THEN << [id |-> "U2", name |-> "alice"] >>
       ELSE << [id |-> "U2", name |-> "alice"], [id |-> "U3", name |-> "bob"] >> >>

\* The pages of conversations.list, public then private; is_channel is the
\* flag updateChannels filters on.
Listed(channel, isChannel) == [channel |-> channel, is_channel |-> isChannel]
publicChannels ==
    << << Listed(channelOf("C016G6T5QTW"), TRUE), Listed(channelOf("CBLITZ"), TRUE),
          Listed(channelOf("CGEN"), TRUE) >> >>
privateChannels ==
    << << Listed(channelOf("C08JZJNU8UC"), TRUE),
          Listed(ChannelRecord("G1", "mods", FALSE, TRUE), FALSE) >> >>

RECURSIVE addMembers(_, _, _, _)
\* page.members.map(slackUser => newUsers.add({...slackUser, lichess_username})).
addMembers(lookup, members, userMap, k) ==
    IF k > Len(members) THEN lookup
    ELSE addMembers(add(lookup,
                        UserRecord(members[k].id, members[k].name,
                                   lichessUsernameBySlackID(userMap, members[k].id))),
                    members, userMap, k + 1)

RECURSIVE secondPass(_, _, _)
\* _.forOwn(slackIDByLichessUsername, ...): every mapped user the lookup holds
\* is added again with its lichess username.
secondPass(lookup, userMap, k) ==
    IF k > Len(userMap) THEN lookup
    ELSE LET slackUser == getByNameOrID(lookup, userMap[k].slackID)
         IN secondPass(IF ~slackUser.found THEN lookup
                       ELSE add(lookup,
                                [slackUser.entity EXCEPT !.lichess_username =
                                    toLowerCase(userMap[k].lichessUsername)]),
                       userMap, k + 1)

RECURSIVE addChannels(_, _, _)
\* page.channels.map(c => { if (c.is_channel) newChannels.add(c) }).
addChannels(lookup, listed, k) ==
    IF k > Len(listed) THEN lookup
    ELSE addChannels(IF listed[k].is_channel THEN add(lookup, listed[k].channel)
                     ELSE lookup,
                     listed, k + 1)

\* The frame of a running updatesUsers / updateChannels: where it is
\* suspended, the page it awaits, the lookup it populates (a reference into
\* the heap of lookups; 0 before it is created), and the lookup that was the
\* bot's when it was called.
Task(cycle, pc, page, new, pre) ==
    [cycle |-> cycle, pc |-> pc, page |-> page, new |-> new, pre |-> pre]

Running(task) == task.pc \notin {"done", "rejected"}

\* updatesUsers resumes with the outcome of the await it is suspended at: the
\* heap and the frame afterwards.
usersStep(heap, task, input, controller) ==
    LET userMap == slackIDByLichessUsername(controller)
        pages == usersList(task.cycle)
    IN IF input = "throws"
       THEN [heap |-> heap, task |-> [task EXCEPT !.pc = "rejected"]]
       ELSE IF task.pc = "getUserMap"
       THEN [heap |-> Append(heap, SlackEntityLookup),
             task |-> [task EXCEPT !.pc = "page", !.page = 1,
                                   !.new = Len(heap) + 1]]
       ELSE IF task.page <= Len(pages)
       THEN [heap |-> IF input = "ok"
                      THEN [heap EXCEPT ![task.new] =
                               addMembers(@, pages[task.page], userMap, 1)]
                      ELSE heap,
             task |-> [task EXCEPT !.page = @ + 1]]
       ELSE [heap |-> [heap EXCEPT ![task.new] = secondPass(@, userMap, 1)],
             task |-> [task EXCEPT !.pc = "done"]]

\* Mutant: the new lookup becomes bot.users as soon as it is created.
updatesUsers_publishFirst(heap, users, task, input, controller) ==
    LET r == usersStep(heap, task, input, controller)
    IN [heap |-> r.heap, task |-> r.task,
        users |-> IF r.task.new # 0 THEN r.task.new ELSE users]

\* updatesUsers: one resumption, and this.users afterwards (this.users =
\* newUsers is its last statement).
updatesUsers(heap, users, task, input, controller) ==
    LET r == usersStep(heap, task, input, controller)
    IN [heap |-> r.heap, task |-> r.task,
        users |-> IF r.task.pc = "done" THEN r.task.new ELSE users]

\* updateChannels resumes with the outcome of the await it is suspended at.
channelsStep(heap, task, input) ==
    LET pages == IF task.pc = "public" THEN publicChannels ELSE privateChannels
    IN IF input = "throws"
       THEN [heap |-> heap, task |-> [task EXCEPT !.pc = "rejected"]]
       ELSE IF task.page <= Len(pages)
       THEN [heap |-> IF input = "ok"
                      THEN [heap EXCEPT ![task.new] =
                               addChannels(@, pages[task.page], 1)]
                      ELSE heap,
             task |-> [task EXCEPT !.page = @ + 1]]
       ELSE IF task.pc = "public"
       THEN [heap |-> heap, task |-> [task EXCEPT !.pc = "private", !.page = 1]]
       ELSE [heap |-> heap, task |-> [task EXCEPT !.pc = "done"]]

\* updateChannels: one resumption, and this.channels afterwards
\* (this.channels = newChannels is its last statement).
updateChannels(heap, channels, task, input) ==
    LET r == channelsStep(heap, task, input)
    IN [heap |-> r.heap, task |-> r.task,
        channels |-> IF r.task.pc = "done" THEN r.task.new ELSE channels]

\* ------------------------------------------------------------------ text
\* String.prototype.split(' '): the runs of symbols between blanks.
RECURSIVE splitFrom(_, _, _)
splitFrom(text, i, run) ==
    IF i > Len(text) THEN <<run>>
    ELSE IF text[i] = Blank THEN <<run>> \o splitFrom(text, i + 1, <<>>)
    ELSE splitFrom(text, i + 1, Append(run, text[i]))

split(text) == splitFrom(text, 1, <<>>)

\* ------------------------------------------------------------------ fuzzy
\* fuzzy_match: the score of a query against a label; an exact match scores
\* above every partial one, 0 is no match.
IsFragment(query, label) ==
    \/ query = "45" /\ label \in {"45+45", "4545"}
    \/ query = "lone" /\ label = "lonewolf"

fuzzyScore(arg, label) ==
    IF Len(arg) # 1 THEN 0
    ELSE IF arg[1] = toLowerCase(label) THEN 2
    ELSE IF IsFragment(arg[1], label) THEN 1
    ELSE 0

\* fuzzy.rankChoices(arg, targets): the targets that match, with their scores.
rankChoices(arg, targets) ==
    SelectSeq([k \in 1..Len(targets) |->
                  [value |-> targets[k], score |-> fuzzyScore(arg, targets[k])]],
              LAMBDA r : r.score > 0)

\* fuzzy.findBestMatches(results): every result at the maximum score.
findBestMatches(results) ==
    SelectSeq(results,
              LAMBDA r : \A k \in 1..Len(results) : results[k].score <= r.score)

\* ------------------------------------------------------------------ leagues
RECURSIVE flatten(_)
flatten(ss) == IF ss = <<>> THEN <<>> ELSE Head(ss) \o flatten(Tail(ss))

\* add_target over every league: the labels pushed, in order.
RECURSIVE leagueTargetsFrom(_)
leagueTargetsFrom(ls) ==
    IF ls = <<>> THEN <<>>
    ELSE <<Head(ls)>> \o alsoKnownAs(Head(ls)) \o leagueTargetsFrom(Tail(ls))

leagueTargets == leagueTargetsFrom(getAllLeagues)

\* targetToLeague[target]: the league that wrote the label last.
RECURSIVE targetToLeagueFrom(_, _)
targetToLeagueFrom(ls, target) ==
    IF ls = <<>> THEN Undefined
    ELSE LET l == ls[Len(ls)]
             own == {l} \cup {alsoKnownAs(l)[k] : k \in 1..Len(alsoKnownAs(l))}
         IN IF target \in own THEN l
            ELSE targetToLeagueFrom(SubSeq(ls, 1, Len(ls) - 1), target)

targetToLeague(target) == targetToLeagueFrom(getAllLeagues, target)

Ambiguous == [threw |-> TRUE, league |-> Undefined, tier |-> "text"]
Resolved(l, tier) == [threw |-> FALSE, league |-> l, tier |-> tier]

\* arg.toLowerCase() of one argument of the text.
lowerArg(arg) == [k \in 1..Len(arg) |-> toLowerCase(arg[k])]

\* Mutant: of several leagues left, one is returned.
findLeagueByMessageText_anyOfSeveral(text) ==
    LET args == split(text)
        matches == [k \in 1..Len(args) |->
                       rankChoices(lowerArg(args[k]), leagueTargets)]
        bestMatches == findBestMatches(flatten(matches))
        possibleLeagues == {targetToLeague(bestMatches[k].value) :
                               k \in 1..Len(bestMatches)}
    IN IF Cardinality(possibleLeagues) >= 1
       THEN Resolved(CHOOSE l \in possibleLeagues : TRUE, "text")
       ELSE Resolved(Undefined, "text")

\* findLeagueByMessageText: the league, null (undefined here), or the
\* StopControllerError('Ambiguous leagues.') thrown.
findLeagueByMessageText(text) ==
    LET args == split(text)
        matches == [k \in 1..Len(args) |->
                       rankChoices(lowerArg(args[k]), leagueTargets)]
        bestMatches == findBestMatches(flatten(matches))
        possibleLeagues == {targetToLeague(bestMatches[k].value) :
                               k \in 1..Len(bestMatches)}
    IN IF Cardinality(possibleLeagues) > 1 THEN Ambiguous
       ELSE IF Cardinality(possibleLeagues) = 1
       THEN Resolved(CHOOSE l \in possibleLeagues : TRUE, "text")
       ELSE Resolved(Undefined, "text")

\* Mutant: getLeague without the lookup of the channel's id in channelMap.
getLeague_nameOnly(channel, text, channelOnly) ==
    LET byName == IF channel.name # Undefined
                  THEN leagueGetLeague(channelMap(channel.name)) ELSE Undefined
    IN IF byName # Undefined THEN Resolved(byName, "name")
       ELSE IF ~channelOnly THEN findLeagueByMessageText(text)
       ELSE Resolved(Undefined, "none")

\* getLeague(bot, message, channelOnly): message.league afterwards, or the
\* error thrown; tier is the step that ended it: the binding of the channel's
\* name, the binding of its id, the free text ("text" whatever
\* findLeagueByMessageText came to), or none of them.
getLeague(channel, text, channelOnly) ==
    LET byName == IF channel.name # Undefined
                  THEN leagueGetLeague(channelMap(channel.name)) ELSE Undefined
        byId == IF channelMap(channel.id) # Undefined
                THEN leagueGetLeague(channelMap(channel.id)) ELSE Undefined
    IN IF byName # Undefined THEN Resolved(byName, "name")
       ELSE IF byId # Undefined THEN Resolved(byId, "id")
       ELSE IF ~channelOnly THEN findLeagueByMessageText(text)
       ELSE Resolved(Undefined, "none")

\* ------------------------------------------------------------------ middleware
Reply(channelId, what, league) ==
    [channel |-> channelId, what |-> what, league |-> league]

\* One transform applied to a message: how it ended ("ok", "abort" for a
\* StopControllerError, "error" for any other Error), the replies it sent
\* through bot.reply, and the message it returned.
MwResult(outcome, replies, message) ==
    [outcome |-> outcome, replies |-> replies, message |-> message]

requiresLeague(message) ==
    IF message.league = Undefined
    THEN MwResult("abort",
                  <<Reply(message.channel.id, "requiresLeague", Undefined)>>,
                  message)
    ELSE MwResult("ok", <<>>, message)

requiresModerator(message) ==
    IF message.league = Undefined
    THEN MwResult("error", <<>>, message)
    ELSE IF message.isModerator # "true"
    THEN MwResult("abort",
                  <<Reply(message.channel.id, "notModerator", message.league)>>,
                  message)
    ELSE MwResult("ok", <<>>, message)

\* A transform that returns a changed copy, as the one of the tests.
upperCase(message) ==
    MwResult("ok", <<>>,
             [message EXCEPT !.text = [k \in 1..Len(message.text) |->
                                          toUpperCase(message.text[k])]])

\* The second transform of the tests: a copy with isPingModerator: true.
setPingModerator(message) ==
    MwResult("ok", <<>>, [message EXCEPT !.isPingModerator = TRUE])

\* A transform that returns a copy with the text in lower case.
lowerCase(message) ==
    MwResult("ok", <<>>,
             [message EXCEPT !.text = [k \in 1..Len(message.text) |->
                                          toLowerCase(message.text[k])]])

middlewareFn(name, message) ==
    CASE name = "requiresLeague" -> requiresLeague(message)
      [] name = "requiresModerator" -> requiresModerator(message)
      [] name = "upperCase" -> upperCase(message)
      [] name = "setPingModerator" -> setPingModerator(message)
      [] name = "lowerCase" -> lowerCase(message)

\* The run of a middleware list: the transforms invoked, how the run ended,
\* the replies sent and the message after the last transform.
MwRun(ran, outcome, replies, message) ==
    [ran |-> ran, outcome |-> outcome, replies |-> replies, message |-> message]

\* listener.middleware.forEach((m) => m(this, message)): every transform gets
\* the same message, what it returns is dropped, a throw ends the loop.
RECURSIVE middlewareForEach(_, _, _)
middlewareForEach(middleware, message, k) ==
    IF k > Len(middleware) THEN MwRun(<<>>, "ok", <<>>, message)
    ELSE LET r == middlewareFn(middleware[k], message)
         IN IF r.outcome # "ok"
            THEN MwRun(<<middleware[k]>>, r.outcome, r.replies, message)
            ELSE LET rest == middlewareForEach(middleware, message, k + 1)
                 IN MwRun(<<middleware[k]>> \o rest.ran, rest.outcome,
                          r.replies \o rest.replies, message)

\* Mutant: every transform is handed the message applyMiddleware was called
\* with.
RECURSIVE applyFrom_sameInput(_, _, _)
applyFrom_sameInput(middleware, message, k) ==
    IF k > Len(middleware) THEN MwRun(<<>>, "ok", <<>>, message)
    ELSE LET r == middlewareFn(middleware[k], message)
         IN IF r.outcome # "ok"
            THEN MwRun(<<middleware[k]>>, r.outcome, r.replies, message)
            ELSE LET rest == applyFrom_sameInput(middleware, message, k + 1)
                 IN MwRun(<<middleware[k]>> \o rest.ran, rest.outcome,
                          r.replies \o rest.replies,
                          IF k = Len(middleware) THEN r.message
                          ELSE rest.message)

\* applyMiddleware(message, middleware): each transform gets the result of the
\* one before.
RECURSIVE applyFrom(_, _, _)
applyFrom(middleware, message, k) ==
    IF k > Len(middleware) THEN MwRun(<<>>, "ok", <<>>, message)
    ELSE LET r == middlewareFn(middleware[k], message)
         IN IF r.outcome # "ok"
            THEN MwRun(<<middleware[k]>>, r.outcome, r.replies, message)
            ELSE LET rest == applyFrom(middleware, r.message, k + 1)
                 IN MwRun(<<middleware[k]>> \o rest.ran, rest.outcome,
                          r.replies \o rest.replies, rest.message)

applyMiddleware(message, middleware) ==
    IF Len(middleware) = 0 THEN MwRun(<<>>, "ok", <<>>, message)
    ELSE applyFrom(middleware, message, 1)

\* ------------------------------------------------------------------ dispatch
\* The message a handler builds for a matched listener.
Message(user, channel, text, matches) ==
    [user |-> user, channel |-> channel, text |-> text, matches |-> matches,
     league |-> Undefined, member |-> Undefined, isModerator |-> Undefined,
     isPingModerator |-> FALSE]

\* What one dispatch to a listener did: whether the call rejected, the league
\* resolution and the member it found, the middleware run, the messages the
\* callback was invoked with, and the replies sent.
CallRecord(listener, rejected, lg, member, message, run, callbacks, replies) ==
    [listener |-> listener, rejected |-> rejected, leagueResult |-> lg,
     member |-> member, message |-> message, run |-> run,
     callbacks |-> callbacks, replies |-> replies]

NoRun(message) == MwRun(<<>>, "none", <<>>, message)

\* Mutant: the inner catch logs and rethrows.
innerCatchRethrows_always(thrown) == TRUE

\* handleMatch's inner catch: it logs the error and does not rethrow.
innerCatchRethrows(thrown) == FALSE

\* handleMatch's outer catch: the reply for an error the inner catch let out.
outerCatch(message, thrown) ==
    IF thrown /\ innerCatchRethrows(thrown)
    THEN <<Reply(message.channel.id, "terriblyWrong", Undefined)>>
    ELSE <<>>

\* The middleware and callback of one branch of handleMatch: seen is the
\* message the transforms get, given the one the callback gets; cb tells
\* whether the callback throws.
runBranch(i, listener, lg, member, message, seen, given, cb) ==
    LET run == middlewareForEach(listener.middleware, seen, 1)
        invoked == run.outcome = "ok"
        thrown == ~invoked \/ cb = "throws"
    IN CallRecord(i, FALSE, lg, member, message, run,
                  IF invoked THEN <<given>> ELSE <<>>,
                  run.replies \o outerCatch(message, thrown))

\* Mutant: the member is not looked up in the channel's list.
isPingModerator_anyMember(channel, member) ==
    /\ channel.id \in pingModsKeys
    /\ member # Undefined

\* handleMatch: the value it assigns to message.isPingModerator.
isPingModerator(channel, member) ==
    /\ channel.id \in pingModsKeys
    /\ member # Undefined
    /\ member \in pingMods(channel.id)

\* SlackBot.handleMatch(listener, message) for the listener at position i.
handleMatch(ls, i, message, cb) ==
    LET listener == ls[i]
        member == IF message.user \notin {Undefined, ""}
                  THEN usersGetByNameOrID(message.user) ELSE Undefined
        lg == getLeague(message.channel, message.text, FALSE)
    IN IF lg.threw
       THEN CallRecord(i, TRUE, lg, member, message, NoRun(message), <<>>, <<>>)
       ELSE
       LET league == lg.league
           allowedTypes == IF league = Undefined \/ member = Undefined
                           THEN {"command"}
                           ELSE {"command", "league_command"}
           msg == [message EXCEPT
                      !.league = league,
                      !.isPingModerator = isPingModerator(message.channel,
                                                          member)]
       IN IF listener.type = "command" /\ "command" \in allowedTypes
          THEN LET m == [msg EXCEPT !.member = member]
               IN runBranch(i, listener, lg, member, msg, m, m, cb)
          ELSE IF listener.type = "league_command"
                  /\ "league_command" \in allowedTypes
          THEN LET leagueCommandMessage ==
                       [msg EXCEPT
                          !.member = member,
                          !.isModerator =
                              IF isModerator(league,
                                             userOf(member).lichess_username)
                              THEN "true" ELSE "false"]
               IN runBranch(i, listener, lg, member, msg, msg,
                            leagueCommandMessage, cb)
          ELSE CallRecord(i, FALSE, lg, member, msg, NoRun(msg), <<>>, <<>>)

\* What a handler did with one event: its calls of handleMatch (for
\* processChessterMessage, its one dispatch), the replies of its own catch
\* block, and whether the handler itself rejected.
HandlerResult(entry, event, env, ls, calls, replies, rejected) ==
    [entry |-> entry, event |-> event, env |-> env,
     calls |-> calls, replies |-> replies, rejected |-> rejected]

\* The say() of a handler's catch block: the reply, when say does not fail.
sayReply(channelId, what, env) ==
    IF env.say = "ok" THEN <<Reply(channelId, what, Undefined)>> ELSE <<>>

\* The message context of the app.message handler: the category flags it
\* derives from the channel and from the event's subtype and bot_id.
messageCategories(channel, isBotMessage) ==
    LET isDirectMessage == channel.is_im /\ ~channel.is_group
    IN [isDirectMessage |-> isDirectMessage,
        isAmbient |-> ~isDirectMessage,
        isBotMessage |-> isBotMessage]

\* The category test of the app.message handler.
messageHandlerWants(listener, isDirectMessage, isAmbient, isBotMessage) ==
    IF isDirectMessage /\ "direct_message" \in listener.messageTypes THEN TRUE
    ELSE IF isAmbient /\ "ambient" \in listener.messageTypes THEN TRUE
    ELSE IF isBotMessage /\ "bot_message" \in listener.messageTypes THEN TRUE
    ELSE FALSE

\* this.listeners.forEach of the app.message handler: every wanted listener
\* with a matching pattern is handed to handleMatch (the break leaves only
\* the loop over that listener's patterns).
RECURSIVE messageForEach(_, _, _, _, _, _)
messageForEach(ls, i, channel, event, isBotMessage, env) ==
    IF i > Len(ls) THEN <<>>
    ELSE LET context == messageCategories(channel, isBotMessage)
             matches == firstPatternMatch(ls[i].patterns, event.text, 1)
             rest == messageForEach(ls, i + 1, channel, event, isBotMessage, env)
         IN IF messageHandlerWants(ls[i], context.isDirectMessage,
                                    context.isAmbient, context.isBotMessage)
               /\ matches # <<>>
            THEN <<handleMatch(ls, i,
                               Message(event.user, channel, event.text, matches),
                               env.cb)>> \o rest
            ELSE rest

\* The app.message handler.
messageHandler(ls, event, env) ==
    IF event.channel = UnknownChannel
    THEN IF env.getChannel = "throws"
         THEN HandlerResult("message", event, env, ls, <<>>,
                            sayReply(event.channel, "errorProcessingYourMessage", env),
                            env.say = "fails")
         ELSE HandlerResult("message", event, env, ls, <<>>, <<>>, FALSE)
    ELSE HandlerResult("message", event, env, ls,
                       messageForEach(ls, 1, channelOf(event.channel), event,
                                      event.bot, env),
                       <<>>, FALSE)

\* text.replace(new RegExp(`<@${id}>\\s*`, 'g'), ''): every mention of the
\* bot goes, with the blanks after it.
RECURSIVE stripMentions(_, _, _)
stripMentions(text, i, afterMention) ==
    IF i > Len(text) THEN <<>>
    ELSE IF text[i] = Mention(BotId) THEN stripMentions(text, i + 1, TRUE)
    ELSE IF text[i] = Blank /\ afterMention THEN stripMentions(text, i + 1, TRUE)
    ELSE <<text[i]>> \o stripMentions(text, i + 1, FALSE)

\* One pass of the app_mention handler over the listeners of one type: the
\* first that takes direct mentions and has a matching pattern, or 0.
RECURSIVE mentionPass(_, _, _, _)
mentionPass(ls, i, type, text) ==
    IF i > Len(ls) THEN 0
    ELSE IF /\ ls[i].type = type
            /\ "direct_mention" \in ls[i].messageTypes
            /\ firstPatternMatch(ls[i].patterns, text, 1) # <<>>
    THEN i
    ELSE mentionPass(ls, i + 1, type, text)

\* The app_mention handler.
appMentionHandler(ls, event, env) ==
    IF event.channel = UnknownChannel
    THEN HandlerResult("app_mention", event, env, ls, <<>>, <<>>, FALSE)
    ELSE LET channel == channelOf(event.channel)
             text == stripMentions(event.text, 1, FALSE)
             user == IF event.user = Undefined THEN "" ELSE event.user
             command == mentionPass(ls, 1, "command", text)
             leagueCommand == mentionPass(ls, 1, "league_command", text)
             i == IF command # 0 THEN command ELSE leagueCommand
         IN IF i = 0
            THEN HandlerResult("app_mention", event, env, ls, <<>>, <<>>, FALSE)
            ELSE HandlerResult("app_mention", event, env, ls,
                     <<handleMatch(ls, i,
                                   Message(user, channel, text,
                                           firstPatternMatch(ls[i].patterns, text, 1)),
                                   env.cb)>>,
                     <<>>, FALSE)

\* normalizeMessageText(text, botUserId): the first "<@id> " goes, then the
\* first "<@id>" of what is left.
RECURSIVE indexOfMention(_, _, _, _)
indexOfMention(text, botUserId, withBlank, i) ==
    IF i > Len(text) THEN 0
    ELSE IF /\ text[i] = Mention(botUserId)
            /\ (~withBlank \/ (i < Len(text) /\ text[i + 1] = Blank))
    THEN i
    ELSE indexOfMention(text, botUserId, withBlank, i + 1)

removeAt(text, i, n) == SubSeq(text, 1, i - 1) \o SubSeq(text, i + n, Len(text))

normalizeMessageText(text, botUserId) ==
    LET i == indexOfMention(text, botUserId, TRUE, 1)
        first == IF i = 0 THEN text ELSE removeAt(text, i, 2)
        j == indexOfMention(first, botUserId, FALSE, 1)
    IN IF j = 0 THEN first ELSE removeAt(first, j, 1)

\* String.prototype.trim.
RECURSIVE trimStart(_)
trimStart(text) ==
    IF text # <<>> /\ Head(text) = Blank THEN trimStart(Tail(text)) ELSE text

RECURSIVE trimEnd(_)
trimEnd(text) ==
    IF text # <<>> /\ text[Len(text)] = Blank
    THEN trimEnd(SubSeq(text, 1, Len(text) - 1)) ELSE text

trim(text) == trimEnd(trimStart(text))

\* channel?.is_im ?? false: a flag the channel does not carry counts as false;
\* an undefined channel is the record without fields.
flagOrFalse(channel, flag) ==
    IF flag \in DOMAIN channel THEN channel[flag] ELSE FALSE

determineMessageContext(channel, isDirectMention) ==
    LET isDirectMessage == flagOrFalse(channel, "is_im")
                           /\ ~flagOrFalse(channel, "is_group")
        isAmbient == ~(isDirectMention \/ isDirectMessage)
    IN Context(isDirectMessage, isDirectMention, isAmbient, FALSE)

\* The type field of the context determineMessageContext returns.
contextType(channel, isDirectMention) ==
    IF isDirectMention THEN "mention"
    ELSE IF determineMessageContext(channel, isDirectMention).isDirectMessage
    THEN "DM"
    ELSE "ambient"

\* processChessterMessage: event.channel is the channel object here.
processChessterMessage(ls, event, env) ==
    LET channel == channelOf(event.channel)
        normalizedText == IF event.isDirectMention
                          THEN normalizeMessageText(event.text, BotId)
                          ELSE event.text
        messageContext == determineMessageContext(channel, event.isDirectMention)
        matched == findMatchingListener(ls, normalizedText, messageContext)
    IN IF matched = NoListener
       THEN HandlerResult("processChessterMessage", event, env, ls,
                          <<>>, <<>>, FALSE)
       ELSE LET commandMessage == Message(event.user, channel,
                                          trim(normalizedText), matched.matches)
                run == applyMiddleware(commandMessage,
                                       ls[matched.listener].middleware)
                invoked == run.outcome = "ok"
                thrown == ~invoked \/ env.cb = "throws"
            IN HandlerResult("processChessterMessage", event, env, ls,
                   <<CallRecord(matched.listener, FALSE,
                                Resolved(Undefined, "none"), Undefined,
                                commandMessage, run,
                                IF invoked THEN <<run.message>> ELSE <<>>,
                                run.replies)>>,
                   IF thrown
                   THEN sayReply(channel.id, "errorProcessingMessage", env)
                   ELSE <<>>,
                   thrown /\ env.say = "fails")

\* ------------------------------------------------------------------ state
VARIABLES
    listeners,   \* SlackBot.listeners / the listeners argument
    findCall,    \* the call of findMatchingListener: arguments and result
    dispatch,    \* the event a handler was given and what the handler did
    bot,         \* the SlackBot's fields: users, channels (references into
                 \* heap), refreshCount, refreshLeagues, controller
    heap,        \* the SlackEntityLookup objects created so far
    userTasks,   \* the frames of the updatesUsers calls, by refresh cycle
    channelTasks,\* the frames of the updateChannels calls, by refresh cycle
    timers,      \* pending setTimeout callbacks of refresh
    started,     \* how far start() has come
    pending,     \* the channel id a getChannel awaits conversations.info for
    seen,        \* the lookup a message handler made on an index in the
                 \* step just taken, if it made one
    fault,       \* the backend that failed in the step just taken, if one did
    utilCall,    \* the call of a function on its own: arguments, result
    lookup,      \* a SlackEntityLookup of its own: its four maps
    added,       \* the entities add() was called with on it, in call order,
                 \* since it was constructed or last cleared
    calls        \* the number of add() calls made on it

dispatchVars == <<listeners, findCall, dispatch>>
refreshVars ==
    <<bot, heap, userTasks, channelTasks, timers, started, pending, seen, fault>>
lookupVars == <<lookup, added, calls>>
utilVars == <<utilCall, lookupVars>>
vars == <<dispatchVars, refreshVars, utilVars>>

NoCall == [called |-> FALSE]
NoDispatch == [entry |-> "none"]

\* Texts findMatchingListener is called with.
FindTexts ==
    { <<>>, <<"help">>, <<"HELP">>, <<"pairings">>,
      <<"pairings", Blank, "help">>, <<"help", Blank, "pairings">>,
      <<"lonewolf">> }

Contexts == { Context(a, b, c, d) : a \in BOOLEAN, b \in BOOLEAN,
                                     c \in BOOLEAN, d \in BOOLEAN }

\* The texts of the events delivered.
EventTexts ==
    { <<"help">>, <<"pairings">>,
      <<"pairings", Blank, "LoneWolf">>,
      <<"pairings", Blank, "45+45", Blank, "lonewolf">>,
      <<Mention(BotId), Blank, "help">>,
      <<"help", Blank>> }

EventChannels == ChannelIds \cup {UnknownChannel}
EventUsers == UserIds \cup {UnknownUser, Undefined}

\* What the collaborators of a handler do: whether the listener's callback
\* throws, whether the handler's say fails, and how getChannel ends for a
\* channel that conversations.info does not resolve.
Env(cb, say, getChannel) == [cb |-> cb, say |-> say, getChannel |-> getChannel]
Envs == { Env("ok", "ok", "undefined"), Env("throws", "ok", "throws"),
          Env("throws", "fails", "throws") }

MessageEvents == [channel : EventChannels, user : EventUsers,
                  text : EventTexts, bot : BOOLEAN]
AppMentionEvents == [channel : EventChannels, user : EventUsers,
                     text : EventTexts]
ProcessCalls == [channel : ChannelIds, user : EventUsers,
                 text : EventTexts, isDirectMention : BOOLEAN]

\* SlackBot.hears: append-only registration.
Hears ==
    /\ Len(listeners) < MaxListeners
    /\ findCall = NoCall /\ dispatch = NoDispatch
    /\ \E options \in ListenerChoices : listeners' = Append(listeners, options)
    /\ UNCHANGED <<findCall, dispatch, refreshVars, utilVars>>

CallFindMatchingListener ==
    /\ ~findCall.called
    /\ \E text \in FindTexts, context \in Contexts :
          findCall' = [called |-> TRUE, listeners |-> listeners,
                       text |-> text, context |-> context,
                       result |-> findMatchingListener(listeners, text, context)]
    /\ UNCHANGED <<listeners, dispatch, refreshVars, utilVars>>

\* A message event is delivered to the app.message handler.
MessageEvent ==
    /\ dispatch = NoDispatch
    /\ \E event \in MessageEvents, env \in Envs :
          dispatch' = messageHandler(listeners, event, env)
    /\ UNCHANGED <<listeners, findCall, refreshVars, utilVars>>

\* An app_mention event is delivered to its handler.
AppMentionEvent ==
    /\ dispatch = NoDispatch
    /\ \E event \in AppMentionEvents, env \in Envs :
          dispatch' = appMentionHandler(listeners, event, env)
    /\ UNCHANGED <<listeners, findCall, refreshVars, utilVars>>

\* processChessterMessage is called.
ProcessChessterMessage ==
    /\ dispatch = NoDispatch
    /\ \E event \in ProcessCalls, env \in Envs :
          dispatch' = processChessterMessage(listeners, event, env)
    /\ UNCHANGED <<listeners, findCall, refreshVars, utilVars>>

\* ------------------------------------------------------------------ refresh actions
NoPending == "none"
NoLookup == [called |-> FALSE]
NoFault == "none"

\* The state of a SlackBot after its constructor.
Constructed(refreshLeagues) ==
    /\ bot = [users |-> 1, channels |-> 2, refreshCount |-> 0,
              refreshLeagues |-> refreshLeagues, controller |-> Undefined]
    /\ heap = <<SlackEntityLookup, SlackEntityLookup>>
    /\ userTasks = <<>>
    /\ channelTasks = <<>>
    /\ timers = 0
    /\ started = "constructed"
    /\ pending = NoPending
    /\ seen = NoLookup
    /\ fault = NoFault

\* Among the calls of one update: the lookups a running call is still
\* populating.
Building(tasks) ==
    {tasks[c].new : c \in {d \in 1..Len(tasks) :
                             Running(tasks[d]) /\ tasks[d].new # 0}}

\* Among the calls of one update: the lookups that were the bot's when a
\* running call was made, and the lookups the finished calls completed.
Settled(tasks) ==
    {tasks[c].pre : c \in {d \in 1..Len(tasks) : Running(tasks[d])}}
    \cup {tasks[c].new : c \in {d \in 1..Len(tasks) : tasks[d].pc = "done"}}

\* What a handler's lookup read: the index object, the key, whether it found
\* the key, whether an update of that index was in progress, the lookups under
\* construction and settled at that moment, and whether a lookup under
\* construction already held the key.
Lookup(index, ref, key, tasks) ==
    [called |-> TRUE, index |-> index, ref |-> ref, key |-> key,
     found |-> getByNameOrID(heap[ref], key).found,
     updating |-> \E c \in 1..Len(tasks) : Running(tasks[c]),
     building |-> Building(tasks), settled |-> Settled(tasks),
     hidden |-> \E r \in Building(tasks) : getByNameOrID(heap[r], key).found]

\* criticalPath(promise): process.exit(1) when the promise rejects; was is
\* how far the bot has come otherwise.
criticalPath(rejects, was) == IF rejects THEN "exited" ELSE was

\* refresh: whether the promise given to criticalPath rejects when the call
\* it made for that backend fails. The executor calls updatesUsers,
\* updateChannels and l.refresh() without awaiting them and resolves, so
\* their rejections are not the promise's.
refreshRejects(failed) == FALSE

\* this.updatesUsers() and this.updateChannels() in refresh: the promise
\* each returns is dropped, with no await and no catch, so a rejection of
\* it is unhandled. What the runtime does with an unhandled rejection is
\* its policy: it warns and goes on, or it raises the rejection as an
\* uncaught exception, which ends the process.
UnhandledRejections == {"warn", "throw"}

policies(failed) == IF failed THEN UnhandledRejections ELSE {"warn"}

unhandled(failed, policy, was) ==
    IF failed /\ policy = "throw" THEN "terminated" ELSE was

\* The process is gone: by process.exit(1) or by an uncaught exception.
Down == {"exited", "terminated"}

\* League.refresh() of the leagues: each call returns a promise that may
\* reject later.
leagueRefreshOutcomes(refreshLeagues) ==
    IF refreshLeagues THEN {"ok", "fails"} ELSE {"ok"}

\* start(): app.start, models.connect (a failure is caught and logged),
\* auth.test and startOnListener; the controller is set when auth.test
\* answers ok.
Start ==
    /\ started = "constructed"
    /\ \E auth \in {"ok", "fails"} :
          bot' = [bot EXCEPT !.controller = IF auth = "ok" THEN BotId
                                            ELSE Undefined]
    /\ \E connect \in {"ok", "fails"} :
          fault' = IF connect = "fails" THEN "database" ELSE NoFault
    /\ started' = "listening"
    /\ seen' = NoLookup
    /\ UNCHANGED <<dispatchVars, utilVars, heap, userTasks, channelTasks, timers, pending>>

\* refresh(delay): count the cycle, call updatesUsers and updateChannels
\* without awaiting them (each runs to its first await), and arm the timer
\* when refreshLeagues is set.
refresh(timersLeft, was) ==
    /\ \E leagues \in leagueRefreshOutcomes(bot.refreshLeagues) :
          /\ fault' = IF leagues = "fails" THEN "leagues" ELSE NoFault
          /\ started' = criticalPath(leagues = "fails" /\ refreshRejects("leagues"),
                                     was)
    /\ bot' = [bot EXCEPT !.refreshCount = @ + 1]
    /\ userTasks' = Append(userTasks,
                           Task(bot.refreshCount + 1, "getUserMap", 0, 0, bot.users))
    /\ heap' = Append(heap, SlackEntityLookup)
    /\ channelTasks' = Append(channelTasks,
                              Task(bot.refreshCount + 1, "public", 1,
                                   Len(heap) + 1, bot.channels))
    /\ timers' = IF bot.refreshLeagues THEN timersLeft + 1 ELSE timersLeft

\* start() calls this.refresh(600 * SECONDS) after the listeners are set up.
StartRefresh ==
    /\ started = "listening"
    /\ refresh(timers, "running")
    /\ seen' = NoLookup
    /\ UNCHANGED <<dispatchVars, utilVars, pending>>

\* The timer of refresh fires.
TimerRefresh ==
    /\ started \notin Down
    /\ timers > 0
    /\ bot.refreshCount < MaxRefresh
    /\ refresh(timers - 1, started)
    /\ seen' = NoLookup
    /\ UNCHANGED <<dispatchVars, utilVars, pending>>

\* How the await an update is suspended at can end: getUserMap resolves or
\* rejects, the first request of conversations.list answers or throws, every
\* later page arrives ok.
usersInputs(task) ==
    IF task.pc = "getUserMap" THEN {"ok", "throws"} ELSE {"ok"}
channelsInputs(task) ==
    IF task.pc = "public" /\ task.page = 1 THEN {"ok", "throws"} ELSE {"ok"}

\* A suspended updatesUsers resumes.
UsersResume ==
    \E c \in 1..Len(userTasks) :
        /\ started \notin Down
        /\ Running(userTasks[c])
        /\ \E input \in usersInputs(userTasks[c]) :
              \E r \in {updatesUsers(heap, bot.users, userTasks[c], input,
                                     bot.controller)} :
              \E failed \in {r.task.pc = "rejected"} :
                 /\ heap' = r.heap
                 /\ userTasks' = [userTasks EXCEPT ![c] = r.task]
                 /\ bot' = [bot EXCEPT !.users = r.users]
                 /\ fault' = IF failed THEN "roster" ELSE NoFault
                 /\ \E policy \in policies(failed) :
                       started' = criticalPath(
                                      failed /\ refreshRejects("roster"),
                                      unhandled(failed, policy, started))
        /\ seen' = NoLookup
        /\ UNCHANGED <<dispatchVars, utilVars, channelTasks, timers, pending>>

\* A suspended updateChannels resumes.
ChannelsResume ==
    \E c \in 1..Len(channelTasks) :
        /\ started \notin Down
        /\ Running(channelTasks[c])
        /\ \E input \in channelsInputs(channelTasks[c]) :
              \E r \in {updateChannels(heap, bot.channels, channelTasks[c],
                                       input)} :
              \E failed \in {r.task.pc = "rejected"} :
                 /\ heap' = r.heap
                 /\ channelTasks' = [channelTasks EXCEPT ![c] = r.task]
                 /\ bot' = [bot EXCEPT !.channels = r.channels]
                 /\ fault' = IF failed THEN "channels" ELSE NoFault
                 /\ \E policy \in policies(failed) :
                       started' = criticalPath(
                                      failed /\ refreshRejects("channels"),
                                      unhandled(failed, policy, started))
        /\ seen' = NoLookup
        /\ UNCHANGED <<dispatchVars, utilVars, userTasks, timers, pending>>

\* The keys handlers look up: a listed user and an unknown one; an IM channel
\* (never listed by conversations.list) and an id Slack does not know.
UserKeys == {"U0164C6FXLK", UnknownUser}
ChannelKeys == {"D1", UnknownChannel}

\* handleMatch looks the sender up: this.users.getByNameOrID(message.user).
LookupUser ==
    /\ started \notin Down \cup {"constructed"}
    /\ fault' = NoFault
    /\ \E key \in UserKeys : seen' = Lookup("users", bot.users, key, userTasks)
    /\ UNCHANGED <<dispatchVars, utilVars, bot, heap, userTasks, channelTasks, timers,
                   started, pending>>

\* hasSingleUser(message) on the user index users for the sender user: the
\* distinct lichess_username values of the entities listed under the
\* sender's id (undefined is a value as any other), what it returns, and
\* the reply it sends.
hasSingleUser(users, user, channelId) ==
    LET duplicates == getIdDuplicates(users, user)
        usernames == {duplicates[k].lichess_username : k \in 1..Len(duplicates)}
        c == Cardinality(usernames)
    IN [called |-> TRUE, index |-> "hasSingleUser", user |-> user,
        usernames |-> usernames, result |-> c = 1,
        replies |-> IF c = 1 THEN <<>>
                    ELSE <<Reply(channelId, "requiresSingleLichessAccount",
                                 Undefined)>>]

\* The senders of the commands that call hasSingleUser: the users of
\* users.list and one it does not list.
Senders == UserIds \cup {"U3", UnknownUser}

\* A command handler calls hasSingleUser for its message.
HasSingleUser ==
    /\ started \notin Down \cup {"constructed"}
    /\ fault' = NoFault
    /\ \E user \in Senders : seen' = hasSingleUser(heap[bot.users], user, "CGEN")
    /\ UNCHANGED <<dispatchVars, utilVars, bot, heap, userTasks, channelTasks, timers,
                   started, pending>>

\* getChannel(channelId) up to its await: the lookup, and on a miss the call of
\* conversations.info.
GetChannel ==
    /\ started \notin Down \cup {"constructed"}
    /\ pending = NoPending
    /\ fault' = NoFault
    /\ \E channelId \in ChannelKeys :
          /\ seen' = Lookup("channels", bot.channels, channelId, channelTasks)
          /\ pending' = IF seen'.found THEN NoPending ELSE channelId
    /\ UNCHANGED <<dispatchVars, utilVars, bot, heap, userTasks, channelTasks, timers,
                   started>>

\* conversations.info answers: an ok response is added to this.channels.
GetChannelResume ==
    /\ started \notin Down
    /\ pending # NoPending
    /\ pending' = NoPending
    /\ fault' = NoFault
    /\ heap' = IF pending \in ChannelIds
               THEN [heap EXCEPT ![bot.channels] = add(@, channelOf(pending))]
               ELSE heap
    /\ seen' = NoLookup
    /\ UNCHANGED <<dispatchVars, utilVars, bot, userTasks, channelTasks, timers, started>>

\* ------------------------------------------------------------------ chessterUtils calls
\* How long the texts normalizeMessageText is called with get.
MaxText == 4

\* The channels determineMessageContext is called with: every combination of
\* is_im and is_group present or absent, and the undefined channel.
FlagChoices == {"true", "false", "absent"}
ChannelWithFlags(im, group) ==
    [f \in {"id"} \cup (IF im = "absent" THEN {} ELSE {"is_im"})
                  \cup (IF group = "absent" THEN {} ELSE {"is_group"}) |->
        IF f = "id" THEN "C12345"
        ELSE IF f = "is_im" THEN im = "true" ELSE group = "true"]
UndefinedChannel == [f \in {} |-> FALSE]
ContextChannels ==
    {ChannelWithFlags(im, group) : im \in FlagChoices, group \in FlagChoices}
    \cup {UndefinedChannel}

\* determineMessageContext is called.
CallDetermineMessageContext ==
    /\ utilCall = NoCall
    /\ \E channel \in ContextChannels, isDirectMention \in BOOLEAN :
          utilCall' = [called |-> TRUE, fn |-> "determineMessageContext",
                       channel |-> channel, isDirectMention |-> isDirectMention,
                       result |-> determineMessageContext(channel, isDirectMention),
                       type |-> contextType(channel, isDirectMention)]
    /\ UNCHANGED <<dispatchVars, refreshVars, lookupVars>>

\* The sequences over S of length at most n.
SeqsUpTo(S, n) == UNION {[1..k -> S] : k \in 0..n}

\* The arguments applyMiddleware is called with: a command message with or
\* without a league, and a list of transforms or none (given = FALSE is the
\* undefined list, which takes the early return of an empty one).
MaxMiddleware == 3
Transforms == {"upperCase", "lowerCase", "setPingModerator", "requiresLeague"}
ApplyTexts == { <<"help">>, <<"HELP">>, <<"pairings", Blank, "LoneWolf">> }
ApplyMessages ==
    { [Message("U2", channelOf("CGEN"), text, <<text[1]>>)
           EXCEPT !.league = league] :
          text \in ApplyTexts, league \in {Undefined, "45+45"} }

CallApplyMiddleware ==
    /\ utilCall = NoCall
    /\ \E message \in ApplyMessages, given \in BOOLEAN :
       \E middleware \in IF given THEN SeqsUpTo(Transforms, MaxMiddleware)
                          ELSE {<<>>} :
          utilCall' = [called |-> TRUE, fn |-> "applyMiddleware",
                       message |-> message, given |-> given,
                       middleware |-> middleware,
                       result |-> applyMiddleware(message, middleware)]
    /\ UNCHANGED <<dispatchVars, refreshVars, lookupVars>>

\* The texts normalizeMessageText is called with: up to MaxText pieces, each
\* a mention of the bot, a blank or a word.
NormalizeTexts == SeqsUpTo({Mention(BotId), Blank, "help"}, MaxText)

\* normalizeMessageText(text, botId), and the same applied to its own result.
CallNormalizeMessageText ==
    /\ utilCall = NoCall
    /\ \E text \in NormalizeTexts :
          LET once == normalizeMessageText(text, BotId)
          IN utilCall' = [called |-> TRUE, fn |-> "normalizeMessageText",
                          text |-> text, result |-> once,
                          again |-> normalizeMessageText(once, BotId)]
    /\ UNCHANGED <<dispatchVars, refreshVars, lookupVars>>

\* The texts findLeagueByMessageText is called with: up to MaxWords words
\* with one blank between two of them.
MaxWords == 3
LeagueWords ==
    {"45", "4545", "45+45", "LoneWolf", "lone", "pairings", "classical"}
RECURSIVE join(_)
join(words) ==
    IF Len(words) <= 1 THEN words
    ELSE <<Head(words), Blank>> \o join(Tail(words))
LeagueTexts == {join(words) : words \in SeqsUpTo(LeagueWords, MaxWords)}

CallFindLeagueByMessageText ==
    /\ utilCall = NoCall
    /\ \E text \in LeagueTexts :
          utilCall' = [called |-> TRUE, fn |-> "findLeagueByMessageText",
                       text |-> text, result |-> findLeagueByMessageText(text)]
    /\ UNCHANGED <<dispatchVars, refreshVars, lookupVars>>

\* The entities add() is called with on the lookup: ids and names that
\* differ only in case, a name that is another entity's id, a lichess
\* username, an IM channel without and with a name, an entity without a
\* name and one named as a member of Object.prototype.
MaxAdds == 3
LookupEntities ==
    { UserRecord("U2", "alice", "alice"),
      UserRecord("u2", "Alice", Undefined),
      UserRecord("U3", "u2", Undefined),
      UserRecord("U3", "bob", "alice"),
      UserRecord("U3", Undefined, Undefined),
      UserRecord("D1", Undefined, Undefined),
      UserRecord("U3", "constructor", Undefined),
      UserRecord("D1", "bob", "alice") }

\* SlackEntityLookup.add(entity) on the lookup.
Add ==
    /\ calls < MaxAdds
    /\ \E entity \in LookupEntities :
          /\ lookup' = add(lookup, entity)
          /\ added' = Append(added, entity)
    /\ calls' = calls + 1
    /\ UNCHANGED <<dispatchVars, refreshVars, utilCall>>

\* The names x of the tokens <@x> of the model: each is made of the
\* characters [\w-.] the pattern of say() asks for.
UserLinkNames == {"U2", "u2", "alice", "Alice", "bob", "ghost", "constructor"}

\* user.id and user.name of what getByNameOrID returned: of an entity its
\* fields, of the inherited member Object.prototype.constructor no id and
\* the function's name.
idOf(found) == IF "id" \in DOMAIN found THEN found.id ELSE Undefined
nameOf(found) == IF "name" \in DOMAIN found THEN found.name ELSE "Object"

\* The replacer of say(): what the token match is replaced by.
userLink(users, piece) ==
    IF \E x \in UserLinkNames : piece = Mention(x)
    THEN LET username == CHOOSE x \in UserLinkNames : piece = Mention(x)
             user == getByNameOrID(users, username)
         IN IF user.found
            THEN "<@" \o idOf(user.entity) \o "|" \o nameOf(user.entity) \o ">"
            ELSE piece
    ELSE piece

\* SlackBot.say: options.text.replace(/<\@([\w-\.]+)>/g, ...), the text
\* being a sequence of pieces, each a token <@x> or other text.
say(users, text) == [k \in 1..Len(text) |-> userLink(users, text[k])]

\* The texts say() is called with: up to MaxSay pieces.
MaxSay == 2
SayTexts == SeqsUpTo({Mention(x) : x \in UserLinkNames} \cup {"hi"}, MaxSay)

\* say({text}) with the lookup as the bot's user index, and say() again on
\* the text it produced.
CallSay ==
    /\ utilCall = NoCall
    /\ \E text \in SayTexts :
          LET once == say(lookup, text)
          IN utilCall' = [called |-> TRUE, fn |-> "say", users |-> lookup,
                          text |-> text, result |-> once,
                          again |-> say(lookup, once)]
    /\ UNCHANGED <<dispatchVars, refreshVars, lookupVars>>

\* SlackEntityLookup.clear(): the two primary maps are emptied, the two
\* duplicates maps are left as they are. On a lookup nothing was added to
\* since the last clear() it changes nothing.
clear(l) == [l EXCEPT !.byName = NoEntries, !.byId = NoEntries]

Clear ==
    /\ added # <<>>
    /\ lookup' = clear(lookup)
    /\ added' = <<>>
    /\ UNCHANGED <<dispatchVars, refreshVars, utilCall, calls>>

InitFind ==
    /\ listeners = <<>>
    /\ findCall = NoCall
    /\ dispatch = NoDispatch
    /\ utilCall = NoCall
    /\ lookup = SlackEntityLookup
    /\ added = <<>>
    /\ calls = 0
    /\ Constructed(TRUE)

NextFind == Hears \/ CallFindMatchingListener

SpecFind == InitFind /\ [][NextFind]_vars

Init ==
    /\ listeners = <<>>
    /\ findCall = NoCall
    /\ dispatch = NoDispatch
    /\ utilCall = NoCall
    /\ lookup = SlackEntityLookup
    /\ added = <<>>
    /\ calls = 0
    /\ Constructed(TRUE)

Next == Hears \/ MessageEvent \/ AppMentionEvent \/ ProcessChessterMessage

Spec == Init /\ [][Next]_vars

InitRefresh ==
    /\ listeners = <<>>
    /\ findCall = NoCall
    /\ dispatch = NoDispatch
    /\ utilCall = NoCall
    /\ lookup = SlackEntityLookup
    /\ added = <<>>
    /\ calls = 0
    /\ \E refreshLeagues \in BOOLEAN : Constructed(refreshLeagues)

NextRefresh ==
    \/ Start \/ StartRefresh \/ TimerRefresh \/ UsersResume \/ ChannelsResume
    \/ LookupUser \/ GetChannel \/ GetChannelResume

SpecRefresh == InitRefresh /\ [][NextRefresh]_vars

\* The user index and the commands that ask it for the sender's accounts.
NextSingleUser ==
    \/ Start \/ StartRefresh \/ TimerRefresh \/ UsersResume \/ HasSingleUser

SpecSingleUser == InitRefresh /\ [][NextSingleUser]_vars

InitUtils ==
    /\ listeners = <<>>
    /\ findCall = NoCall
    /\ dispatch = NoDispatch
    /\ utilCall = NoCall
    /\ lookup = SlackEntityLookup
    /\ added = <<>>
    /\ calls = 0
    /\ Constructed(TRUE)

NextUtils ==
    \/ CallDetermineMessageContext
    \/ CallApplyMiddleware
    \/ CallNormalizeMessageText
    \/ CallFindLeagueByMessageText

SpecUtils == InitUtils /\ [][NextUtils]_vars

InitLookup == InitUtils

NextLookup == Add

SpecLookup == InitLookup /\ [][NextLookup]_vars

NextLookupClear == Add \/ Clear

\* The user index is filled, and say() is called with it.
NextSay == Add \/ CallSay
SpecSay == InitUtils /\ [][NextSay]_vars

SpecLookupClear == InitLookup /\ [][NextLookupClear]_vars

\* ------------------------------------------------------------------ C2
Accepting(ls, text, context) ==
    { i \in 1..Len(ls) :
        /\ doesListenerWantMessageType(ls[i], context)
        /\ \E j \in 1..Len(ls[i].patterns) : match(text, ls[i].patterns[j]) # <<>> }

Least(S) == CHOOSE n \in S : \A m \in S : n <= m

\* C2: findMatchingListener returns the earliest listener that accepts the
\* context and has a matching pattern, with the captures of that listener's
\* first matching pattern; it returns null exactly when there is none.
C2_FirstListenerFirstPattern ==
    findCall.called =>
        LET ls == findCall.listeners
            acc == Accepting(ls, findCall.text, findCall.context)
            r == findCall.result
        IN IF acc = {} THEN r = NoListener
           ELSE LET i == Least(acc)
                    ps == ls[i].patterns
                    j == Least({k \in 1..Len(ps) : match(findCall.text, ps[k]) # <<>>})
                IN /\ r.listener = i
                   /\ r.matches = match(findCall.text, ps[j])

\* Two registered listeners accept the context and match, with different
\* captures for the two patterns of the first.
C2_Witness ==
    /\ findCall.called
    /\ Cardinality(Accepting(findCall.listeners, findCall.text,
                              findCall.context)) = 2
    /\ findCall.result.listener = 1
    /\ LET ps == findCall.listeners[1].patterns
       IN /\ Len(ps) = 2
          /\ match(findCall.text, ps[1]) # match(findCall.text, ps[2])
          /\ match(findCall.text, ps[2]) # <<>>

\* ------------------------------------------------------------------ dispatch claims
Dispatched == dispatch.entry # "none"
ByHandleMatch == dispatch.entry \in {"message", "app_mention"}
Calls == IF Dispatched THEN {dispatch.calls[k] : k \in 1..Len(dispatch.calls)}
         ELSE {}
CallbackThrew(call) == call.callbacks # <<>> /\ dispatch.env.cb = "throws"
GenericReplies(replies) ==
    SelectSeq(replies, LAMBDA r : r.what \in {"terriblyWrong",
                                              "errorProcessingMessage"})

\* C1: on each of the three entry points at most one listener is dispatched
\* for an inbound message.
C1_AtMostOneDispatch == Dispatched => Len(dispatch.calls) <= 1

\* C3: no exception escapes message dispatch: neither handleMatch nor
\* processChessterMessage rejects.
C3_NothingEscapes ==
    /\ \A call \in Calls : ~call.rejected
    /\ dispatch.entry = "processChessterMessage" => ~dispatch.rejected

\* C4: whenever the callback of a matched listener throws, the dispatcher
\* sends exactly one generic apologetic reply (sending itself not failing).
C4_OneApologyPerCallbackFault ==
    \A call \in Calls :
        CallbackThrew(call) /\ dispatch.env.say = "ok" =>
            Len(GenericReplies(call.replies \o dispatch.replies)) = 1

\* C5: a league_command listener's middleware and callback run only with a
\* league and a member resolved; otherwise nothing runs and no reply is sent.
C5_LeagueCommandGated ==
    \A call \in Calls :
        /\ listeners[call.listener].type = "league_command"
        /\ (call.leagueResult.league = Undefined \/ call.member = Undefined)
        => /\ call.callbacks = <<>>
           /\ call.run.ran = <<>>
           /\ call.replies = <<>>
           /\ dispatch.replies = <<>>

\* C6: for a league_command listener with requiresModerator, dispatched by
\* handleMatch with a league and a member resolved, the middleware aborts
\* (denial reply, no callback) iff the member is not a moderator of the league.
C6_ModeratorGate ==
    ByHandleMatch =>
    \A call \in Calls :
        /\ listeners[call.listener].type = "league_command"
        /\ "requiresModerator" \in
              {listeners[call.listener].middleware[k] :
                  k \in 1..Len(listeners[call.listener].middleware)}
        /\ ~call.rejected
        /\ call.leagueResult.league # Undefined
        /\ call.member # Undefined
        => ((call.run.outcome = "abort" /\ call.callbacks = <<>>)
              <=> ~isModerator(call.leagueResult.league,
                               userOf(call.member).lichess_username))

C8_AmbiguityAnswered ==
    ByHandleMatch =>
    \A call \in Calls :
        call.leagueResult.threw =>
            /\ call.replies # <<>>
            /\ call.leagueResult.league = Undefined
            /\ call.callbacks = <<>>

\* The league a channel is bound to in channelMap: by its name, else by its id.
IsBound(channel) ==
    channel.name \in channelMapKeys \/ channel.id \in channelMapKeys
BoundLeague(channel) ==
    IF channel.name \in channelMapKeys THEN channelMap(channel.name)
    ELSE channelMap(channel.id)

\* C9: whenever the message's channel has a binding in channelMap, the league
\* getLeague resolves for the message is the bound one, never a league taken
\* from the free text of the message.
C9_BindingWins ==
    ByHandleMatch =>
    \A call \in Calls :
        (IsBound(call.message.channel) /\ call.leagueResult.league # Undefined)
            => /\ call.leagueResult.tier # "text"
               /\ call.leagueResult.league = BoundLeague(call.message.channel)

\* ------------------------------------------------------------------ C10
\* C10: a lookup a handler makes on bot.users or bot.channels while an update
\* of that index is in progress never reads a lookup the update is still
\* populating: it reads the index that was the bot's when a running update
\* was called, or one a finished update completed.
C10_RefreshAtomic ==
    (seen.called /\ seen.updating) =>
        /\ seen.ref \notin seen.building
        /\ seen.ref \in seen.settled

\* A handler looks up a user that the lookup under construction already
\* holds, and the index it reads does not.
C10_Witness ==
    /\ seen.called /\ seen.updating
    /\ seen.index = "users"
    /\ seen.hidden /\ ~seen.found

\* ------------------------------------------------------------------ C11
\* C11: the active indexes change only by replacement: a step that leaves
\* bot.users (bot.channels) referring to the same lookup, as every step of a
\* message handler does, leaves the records of that lookup as they were.
C11_IndexesOnlyReplaced ==
    [][ /\ bot'.users = bot.users => heap'[bot.users] = heap[bot.users]
        /\ bot'.channels = bot.channels =>
              heap'[bot.channels] = heap[bot.channels] ]_vars

\* ------------------------------------------------------------------ C12
\* The flags of a context that are true.
TrueFlags(context) ==
    {f \in {"isDirectMessage", "isDirectMention", "isAmbient", "isBotMessage"} :
        context[f]}

\* C12: for every combination of the channel flags is_im and is_group
\* (absent included) and of the mention flag, exactly one of the four flags of
\* the context determineMessageContext returns is true.
C12_ExactlyOneCategory ==
    (utilCall.called /\ utilCall.fn = "determineMessageContext") =>
        Cardinality(TrueFlags(utilCall.result)) = 1

\* ------------------------------------------------------------------ C13
\* The single category of a message: direct_mention if the mention flag is
\* set, else direct_message in an IM channel that is no group, else ambient.
Category(channel, isDirectMention) ==
    IF isDirectMention THEN "direct_mention"
    ELSE IF channel.is_im /\ ~channel.is_group THEN "direct_message"
    ELSE "ambient"

\* C13: processChessterMessage hands a message only to a listener whose
\* messageTypes contain the message's category.
C13_OfferedByCategory ==
    dispatch.entry = "processChessterMessage" =>
        \A call \in Calls :
            Category(channelOf(dispatch.event.channel),
                     dispatch.event.isDirectMention)
                \in listeners[call.listener].messageTypes

\* ------------------------------------------------------------------ C14
\* The listeners that accept direct_mention and have a pattern matching.
MentionMatching(text) ==
    { i \in 1..Len(listeners) :
        /\ "direct_mention" \in listeners[i].messageTypes
        /\ \E j \in 1..Len(listeners[i].patterns) :
              match(text, listeners[i].patterns[j]) # <<>> }

\* C14: in the app_mention handler the listener dispatched is the earliest
\* registered one among those that accept direct_mention and match the text,
\* whatever its kind.
C14_RegistrationOrderOnly ==
    dispatch.entry = "app_mention" =>
        \A call \in Calls :
            call.listener = Least(MentionMatching(call.message.text))

\* ------------------------------------------------------------------ C15
\* C15: for a listener of kind command, handleMatch runs the middleware and,
\* unless a transform stops it, the callback, whatever league resolution
\* yields for the message (a league, none, or ambiguous).
C15_CommandNotGated ==
    ByHandleMatch =>
    \A call \in Calls :
        listeners[call.listener].type = "command" =>
            LET mw == listeners[call.listener].middleware
            IN /\ ~call.rejected
               /\ mw # <<>> => call.run.ran # <<>>
               /\ call.run.outcome = "ok" => Len(call.callbacks) = 1

\* ------------------------------------------------------------------ C16
\* The calls of handleMatch for a league_command listener, on a message of a
\* resolvable member in a channel channelMap binds by id, none of whose
\* transforms stops on the message handleMatch hands them.
LeagueCommandCalls ==
    { call \in Calls :
        /\ listeners[call.listener].type = "league_command"
        /\ usersGetByNameOrID(dispatch.event.user) # Undefined
        /\ channelMap(dispatch.event.channel) # Undefined
        /\ \A k \in 1..Len(listeners[call.listener].middleware) :
              middlewareFn(listeners[call.listener].middleware[k],
                           call.message).outcome = "ok" }

\* C16: for a league_command listener matched on a message of a resolvable
\* member in a channel bound by id to league L, with no aborting middleware,
\* handleMatch invokes the callback exactly once, with league = L, member =
\* the resolved member and isModerator = L.isModerator(lichess username).
C16_LeagueCommandDispatched ==
    ByHandleMatch =>
    \A call \in LeagueCommandCalls :
        LET L == channelMap(dispatch.event.channel)
            member == usersGetByNameOrID(dispatch.event.user)
        IN /\ Len(call.callbacks) = 1
           /\ call.callbacks[1].league = L
           /\ call.callbacks[1].member = member
           /\ call.callbacks[1].isModerator = "true"
                  <=> userOf(member).lichess_username \in leagueModerators(L)

\* A moderator's 'pairings' in the channel bound by id only, and a
\* non-moderator's dispatch, both reach the callback.
C16_Witness ==
    /\ ByHandleMatch
    /\ \E call \in LeagueCommandCalls :
          /\ dispatch.event.channel = "C016G6T5QTW"
          /\ call.leagueResult.tier = "id"
          /\ Len(call.callbacks) = 1
          /\ call.callbacks[1].league = "45+45"
          /\ call.callbacks[1].member = "U0164C6FXLK"
          /\ call.callbacks[1].isModerator = "true"

\* ------------------------------------------------------------------ C17
\* The text at the end of the listener's middleware chain: what its last
\* transform returns when each is fed the result of the one before.
ChainOutput(call) ==
    applyFrom(listeners[call.listener].middleware, call.message, 1).message

\* C17: in processChessterMessage and in handleMatch alike, the message the
\* callback is invoked with is the output of the listener's middleware chain,
\* so a change a transform makes by returning a modified message is visible
\* to the callback.
C17_CallbackGetsChainOutput ==
    \A call \in Calls :
        call.callbacks # <<>> =>
            call.callbacks[1].text = ChainOutput(call).text

\* ------------------------------------------------------------------ C18
\* fn(...f1(message)) for the first n transforms of the list.
RECURSIVE Composed(_, _, _)
Composed(middleware, message, n) ==
    IF n = 0 THEN message
    ELSE middlewareFn(middleware[n], Composed(middleware, message, n - 1)).message

\* No transform of the list throws on the message it is fed.
NoneThrows(middleware, message) ==
    \A n \in 1..Len(middleware) :
        middlewareFn(middleware[n],
                     Composed(middleware, message, n - 1)).outcome = "ok"

\* C18: applyMiddleware(m, [f1, ..., fn]) calls each transform once in list
\* order, feeding each the result of the one before, and returns
\* fn(...f1(m)); with an undefined or empty list it returns m unchanged.
C18_AppliesInOrder ==
    (utilCall.called /\ utilCall.fn = "applyMiddleware"
        /\ NoneThrows(utilCall.middleware, utilCall.message)) =>
        /\ utilCall.result.outcome = "ok"
        /\ utilCall.result.ran = utilCall.middleware
        /\ utilCall.result.message =
              Composed(utilCall.middleware, utilCall.message,
                       Len(utilCall.middleware))
        /\ utilCall.middleware = <<>> =>
              utilCall.result.message = utilCall.message

\* 'help' through lowerCase, upperCase, setPingModerator comes out as 'HELP'
\* with the flag set; the other order of the first two would give 'help'.
C18_Witness ==
    /\ utilCall.called /\ utilCall.fn = "applyMiddleware"
    /\ utilCall.middleware = <<"lowerCase", "upperCase", "setPingModerator">>
    /\ utilCall.message.text = <<"help">>
    /\ utilCall.result.message.text = <<"HELP">>
    /\ utilCall.result.message.isPingModerator

\* ------------------------------------------------------------------ C19
\* C19: when a transform aborts, the dispatcher sends none of its generic
\* fault replies ('Error processing message...' of processChessterMessage,
\* 'Something has gone terribly terribly wrong' of handleMatch); the only
\* reply the user can receive is the one carried by the abort.
C19_AbortIsNoFault ==
    \A call \in Calls :
        call.run.outcome = "abort" =>
            /\ GenericReplies(call.replies) = <<>>
            /\ GenericReplies(dispatch.replies) = <<>>
            /\ call.replies = call.run.replies

\* ------------------------------------------------------------------ C20
\* C20: normalizeMessageText is idempotent: applied to its own result it
\* returns that result, also for texts that mention the bot several times.
C20_NormalizeIdempotent ==
    (utilCall.called /\ utilCall.fn = "normalizeMessageText") =>
        utilCall.again = utilCall.result

\* ------------------------------------------------------------------ C21
\* A text that begins with the bot's mention, and what follows the mention
\* and the one blank after it, if there is one.
BeginsWithMention(text) == text # <<>> /\ text[1] = Mention(BotId)
Remainder(text) ==
    IF Len(text) >= 2 /\ text[2] = Blank THEN SubSeq(text, 3, Len(text))
    ELSE Tail(text)
Mentions(text) == Len(SelectSeq(text, LAMBDA t : t = Mention(BotId)))

\* C21: for a text made of the bot's mention, optionally one blank, and a
\* remainder, normalizeMessageText returns the remainder; a text without a
\* mention of the bot is returned unchanged.
C21_MentionRemoved ==
    (utilCall.called /\ utilCall.fn = "normalizeMessageText") =>
        /\ BeginsWithMention(utilCall.text) =>
              utilCall.result = Remainder(utilCall.text)
        /\ Mentions(utilCall.text) = 0 => utilCall.result = utilCall.text

\* ------------------------------------------------------------------ C22
\* The entities added so far whose id is k when case is ignored, in the order
\* of the add() calls.
AddedWithId(k) == SelectSeq(added, LAMBDA e : toUpperCase(e.id) = toUpperCase(k))
LookupIds == {"U2", "u2", "U3", "u3", "D1", "d1", "U9"}

\* C22: after any sequence of add() calls, the by-id lookup of k returns the
\* entity most recently added with that id, and getIdDuplicates(k) lists
\* every entity added with that id, in insertion order.
C22_IdDuplicatesListAll ==
    \A k \in LookupIds :
        LET with == AddedWithId(k)
        IN /\ getIdDuplicates(lookup, k) = with
           /\ with # <<>> =>
                 /\ isDefined(lookup.byId, toUpperCase(k))
                 /\ lookup.byId[toUpperCase(k)] = with[Len(with)]
                 /\ getByNameOrID(lookup, k) = Found(with[Len(with)])

\* 'U2' then 'u2': the list has both, and the lookup returns the second.
C22_Witness ==
    /\ Len(added) >= 2
    /\ added[1].id = "U2" /\ added[2].id = "u2"
    /\ Len(getIdDuplicates(lookup, "U2")) = 2
    /\ getIdDuplicates(lookup, "u2")[2] = getByNameOrID(lookup, "U2").entity
    /\ getByNameOrID(lookup, "U2").entity.name = "Alice"

\* ------------------------------------------------------------------ C23
\* The entities added so far that add() registers under the name key k: by
\* name or by lichess username, unless add() returned before.
NamedBy(e, k) ==
    /\ ~startsWithD(e.id) /\ e.name # Undefined
    /\ \/ e.name # "" /\ toLowerCase(e.name) = k
       \/ e.lichess_username # Undefined /\ toLowerCase(e.lichess_username) = k
RegisteredUnderName(k) == SelectSeq(added, LAMBDA e : NamedBy(e, k))
DuplicatesOf(map, k) == IF isDefined(map, k) THEN map[k] ELSE <<>>

\* C23: for every key k of the id map and of the name map, the duplicates
\* list of k is non-empty if and only if two or more entities were registered
\* under k; a key registered by one entity has no duplicates entry.
C23_DuplicatesOnlyFromTwo ==
    /\ \A k \in DOMAIN lookup.byId :
          DuplicatesOf(lookup.idDuplicates, k) # <<>>
              <=> Len(AddedWithId(k)) >= 2
    /\ \A k \in DOMAIN lookup.byName :
          DuplicatesOf(lookup.nameDuplicates, k) # <<>>
              <=> Len(RegisteredUnderName(k)) >= 2

\* The keys of a list up to the first that names a member of
\* Object.prototype: the registration of that one fails and ends add().
RECURSIVE UpToInherited(_)
UpToInherited(keys) ==
    IF keys = <<>> \/ Head(keys) \in ObjectPrototypeKeys THEN <<>>
    ELSE <<Head(keys)>> \o UpToInherited(Tail(keys))

\* The registrations add() makes for entity e in the name map: its name, then
\* its lichess username.
NameKeys(e) ==
    UpToInherited(
        IF startsWithD(e.id) \/ e.name = Undefined THEN <<>>
        ELSE (IF e.name # "" THEN <<toLowerCase(e.name)>> ELSE <<>>)
             \o (IF e.lichess_username # Undefined
                 THEN <<toLowerCase(e.lichess_username)>> ELSE <<>>))

\* One element per registration under name key k by the first n entities of
\* added, in registration order.
RECURSIVE Registrations(_, _)
Registrations(k, n) ==
    IF n = 0 THEN <<>>
    ELSE Registrations(k, n - 1)
         \o [i \in 1..Len(SelectSeq(NameKeys(added[n]), LAMBDA key : key = k))
                |-> added[n]]

\* C23, amended: for every key k of the id map and of the name map, the
\* duplicates list of k holds every registration made under k since the
\* lookup was constructed or last cleared, in order: one element for a key
\* registered once, two or more exactly when k was registered twice or more.
C23_DuplicatesListRegistrations ==
    /\ \A k \in DOMAIN lookup.byId :
          /\ DuplicatesOf(lookup.idDuplicates, k) = AddedWithId(k)
          /\ AddedWithId(k) # <<>>
    /\ \A k \in DOMAIN lookup.byName :
          /\ DuplicatesOf(lookup.nameDuplicates, k) = Registrations(k, Len(added))
          /\ Registrations(k, Len(added)) # <<>>

\* A key registered once after a clear(), with a list of one element, next to
\* a name key registered by two entities.
C23_Witness ==
    /\ calls > Len(added)
    /\ \E k \in DOMAIN lookup.byId : Len(lookup.idDuplicates[k]) = 1
    /\ \E k \in DOMAIN lookup.byName :
          /\ Len(lookup.nameDuplicates[k]) = 2
          /\ lookup.nameDuplicates[k][1] # lookup.nameDuplicates[k][2]

\* ------------------------------------------------------------------ C24
LookupKeys ==
    LookupIds \cup {"alice", "ALICE", "Alice", "bob", "ghost", "constructor"}
Last(seq) == seq[Len(seq)]

\* What C24 says getByNameOrID(key) returns.
ExpectedByNameOrID(key) ==
    LET byIdRecords == AddedWithId(key)
        byNameRecords == Registrations(toLowerCase(key), Len(added))
    IN IF byIdRecords # <<>> THEN Found(Last(byIdRecords))
       ELSE IF byNameRecords # <<>> THEN Found(Last(byNameRecords))
       ELSE NoEntity

\* C24: getByNameOrID(key) returns the entity whose id equals key ignoring
\* case if there is one; otherwise the entity most recently registered under
\* the name or lichess username equal to key ignoring case; otherwise
\* undefined. When an id and a name both equal key, the id match is returned.
C24_IdThenNameElseUndefined ==
    \A key \in LookupKeys :
        getByNameOrID(lookup, key) = ExpectedByNameOrID(key)

\* ------------------------------------------------------------------ C25
\* The labels of league l, and the scores the words of text reach on any
\* label of any league.
LabelsOf(l) == {l} \cup {alsoKnownAs(l)[k] : k \in 1..Len(alsoKnownAs(l))}
WordsOf(text) == {split(text)[k] : k \in 1..Len(split(text))}
Scores(text) ==
    {fuzzyScore(lowerArg(w), label) : w \in WordsOf(text),
                                      label \in UNION {LabelsOf(l) : l \in LeagueNames}}
    \ {0}
Best(text) == CHOOSE s \in Scores(text) : \A t \in Scores(text) : t <= s

\* The labels some word of the text matches best.
BestLabels(text) ==
    IF Scores(text) = {} THEN {}
    ELSE {label \in UNION {LabelsOf(l) : l \in LeagueNames} :
             \E w \in WordsOf(text) :
                 fuzzyScore(lowerArg(w), label) = Best(text)}

\* The league a label is mapped back to: of the leagues configured with
\* it, the one that comes last in the configuration.
OwnerOf(label) ==
    LET at == {k \in 1..Len(getAllLeagues) : label \in LabelsOf(getAllLeagues[k])}
    IN getAllLeagues[CHOOSE k \in at : \A j \in at : j <= k]

\* The leagues the best-matching labels are mapped back to.
LeaguesLeft(text) == {OwnerOf(label) : label \in BestLabels(text)}

Malformed(event) ==
    event.channel = UnknownChannel \/ event.user \in {Undefined, ""}

\* C27: for an inbound event whose channel cannot be resolved (the lookup
\* returns nothing or fails) or that carries no user id, no listener callback
\* is invoked and no reply is sent.
C27_MalformedDropped ==
    (ByHandleMatch /\ Malformed(dispatch.event)) =>
        /\ dispatch.replies = <<>>
        /\ \A call \in Calls : call.callbacks = <<>> /\ call.replies = <<>>


\* ---------------------------------------------------------------------
\* C28: a failure of the database connection, of the roster fetch, of
\* the channel fetch or of a league refresh never ends the process: in
\* the step in which one of them fails the bot does not exit, its
\* listeners stay installed and the active user and channel indexes are
\* the ones that were active before, with their entries.
Faults == {"database", "roster", "channels", "leagues"}

Degraded ==
    /\ started' \in {"listening", "running"}
    /\ bot'.users = bot.users
    /\ bot'.channels = bot.channels
    /\ heap'[bot.users] = heap[bot.users]
    /\ heap'[bot.channels] = heap[bot.channels]

C28_BackendFailureKeepsRunning ==
    [][fault' \in Faults => Degraded]_vars


\* ---------------------------------------------------------------------
\* C29: in the app.message handler exactly one of the category flags
\* direct message, ambient and bot-originated holds of a message, and a
\* bot-originated message in a channel that is not a direct-message
\* channel reaches only listeners that accept 'bot_message'.
FlagsSet(context) ==
    {f \in {"isDirectMessage", "isAmbient", "isBotMessage"} : context[f]}

ByMessageHandler ==
    /\ dispatch.entry = "message"
    /\ dispatch.event.channel # UnknownChannel

ContextOf(event) == messageCategories(channelOf(event.channel), event.bot)

C29_CategoriesExclusive ==
    ByMessageHandler =>
        /\ Cardinality(FlagsSet(ContextOf(dispatch.event))) = 1
        /\ (dispatch.event.bot /\ ~ContextOf(dispatch.event).isDirectMessage) =>
              \A call \in Calls :
                  "bot_message" \in listeners[call.listener].messageTypes


\* ---------------------------------------------------------------------
\* C30: handleMatch resolves the league before it runs a listener's
\* middleware, so a requiresModerator run by handleMatch never ends in
\* the plain Error: it returns the message or aborts with the denial
\* reply.
RanAfterResolution(call) ==
    {k \in 1..Len(call.run.ran) : call.run.ran[k] = "requiresModerator"}

C30_PlainErrorOnlyBeforeResolution ==
    ByHandleMatch =>
    \A call \in Calls :
        (~call.leagueResult.threw /\ RanAfterResolution(call) # {}) =>
            /\ requiresModerator(call.run.message).outcome \in {"ok", "abort"}
            /\ call.run.outcome # "error"


\* ---------------------------------------------------------------------
\* C31: add(entity) does not fail for an entity without a name and always
\* leaves the entity in the id map; an entity whose id starts with 'D' is
\* put in the id map only; every other entity that has a name is then
\* returned by getByNameOrID for that name and, if it has one, for its
\* lichess username.
IsAdd == Len(added') = Len(added) + 1

FoundByNames(l, e) ==
    /\ getByNameOrID(l, e.name) = Found(e)
    /\ e.lichess_username # Undefined =>
          getByNameOrID(l, e.lichess_username) = Found(e)

AddIndexes(e) ==
    /\ e.name = Undefined => ~addThrows(lookup, e)
    /\ read(lookup'.byId, toUpperCase(e.id)) = Found(e)
    /\ startsWithD(e.id) =>
          /\ lookup'.byName = lookup.byName
          /\ lookup'.nameDuplicates = lookup.nameDuplicates
    /\ (~startsWithD(e.id) /\ e.name # Undefined) => FoundByNames(lookup', e)

C31_AddIndexesByIdAndName ==
    [][IsAdd => AddIndexes(Last(added'))]_vars


\* ---------------------------------------------------------------------
\* C38: after any sequence of add() and clear() calls, for every key the
\* duplicates list is non-empty exactly when the primary map holds an
\* entry for the key, and the last element of the list is that entry; so
\* idDuplicateCount and getIdDuplicates report no record that the lookup
\* does not find.
idDuplicateCount(l, id) == Len(getIdDuplicates(l, id))

Consistent(primary, duplicates) ==
    \A k \in DOMAIN primary \cup DOMAIN duplicates :
        /\ DuplicatesOf(duplicates, k) # <<>> <=> isDefined(primary, k)
        /\ isDefined(primary, k) => Last(duplicates[k]) = primary[k]

C38_DuplicatesMatchPrimary ==
    /\ Consistent(lookup.byId, lookup.idDuplicates)
    /\ Consistent(lookup.byName, lookup.nameDuplicates)
    /\ \A id \in LookupIds :
          idDuplicateCount(lookup, id) > 0 => getByNameOrID(lookup, id).found


\* ---------------------------------------------------------------------
\* C39: hasSingleUser returns true, and sends no reply, exactly when the
\* user index associates the sender's id with exactly one lichess
\* username; with none, or with two or more, it sends exactly one reply
\* and returns false.
LichessUsernamesOf(index, user) ==
    {getIdDuplicates(index, user)[k].lichess_username :
        k \in 1..Len(getIdDuplicates(index, user))} \ {Undefined}

AskedSingleUser == seen.called /\ seen.index = "hasSingleUser"

C39_SingleUserIffOneUsername ==
    AskedSingleUser =>
        LET n == Cardinality(LichessUsernamesOf(heap[bot.users], seen.user))
        IN /\ seen.result <=> n = 1
           /\ seen.result => seen.replies = <<>>
           /\ ~seen.result => Len(seen.replies) = 1


\* ---------------------------------------------------------------------
\* C32: say() rewrites every token <@x> whose x names a known user, by id
\* or by name, to <@id|name> of that user, leaves every token that names
\* no known user as it is, and changes nothing in a text it has already
\* rewritten.
KnownUsers(users) ==
    {e \in UNION {{users.idDuplicates[id][k] :
                      k \in 1..Len(users.idDuplicates[id])} :
                  id \in DOMAIN users.idDuplicates} : ~startsWithD(e.id)}

NamesUser(x, e) ==
    \/ toUpperCase(x) = toUpperCase(e.id)
    \/ e.name # Undefined
       /\ toLowerCase(x) \in {toLowerCase(e.name), toLowerCase(e.lichess_username)}

CanonicalLink(e) == "<@" \o e.id \o "|" \o e.name \o ">"

Rewritten(users, piece, out) ==
    IF \E x \in UserLinkNames : piece = Mention(x)
    THEN LET x == CHOOSE y \in UserLinkNames : piece = Mention(y)
             named == {e \in KnownUsers(users) : NamesUser(x, e)}
         IN IF named = {} THEN out = piece
            ELSE \E e \in named : out = CanonicalLink(e)
    ELSE out = piece

SayCalled == utilCall.called /\ utilCall.fn = "say"

C32_SayRewritesUserLinks ==
    SayCalled =>
        /\ Len(utilCall.result) = Len(utilCall.text)
        /\ \A k \in 1..Len(utilCall.text) :
              Rewritten(utilCall.users, utilCall.text[k], utilCall.result[k])
        /\ utilCall.again = utilCall.result


\* ---------------------------------------------------------------------
\* C36: in processChessterMessage the text the listener patterns are
\* matched against is the text of the message handed to the middleware
\* and the callback, so whether a listener matches is decided on the text
\* the callback receives.
ByProcessChessterMessage == dispatch.entry = "processChessterMessage"

MatchedOn(event) ==
    IF event.isDirectMention THEN normalizeMessageText(event.text, BotId)
    ELSE event.text

ContextOfCall(event) ==
    determineMessageContext(channelOf(event.channel), event.isDirectMention)

C36_MatchedTextIsMessageText ==
    ByProcessChessterMessage =>
        /\ \A call \in Calls : call.message.text = MatchedOn(dispatch.event)
        /\ Calls = {} <=>
              findMatchingListener(listeners, trim(MatchedOn(dispatch.event)),
                                   ContextOfCall(dispatch.event)) = NoListener


\* ---------------------------------------------------------------------
\* C37: when a label some word of the text matches best is configured
\* for two different leagues, findLeagueByMessageText is Ambiguous; it
\* does not return one of the two.
ClaimedBy(label) == {l \in LeagueNames : label \in LabelsOf(l)}

SharedBest(text) == {label \in BestLabels(text) : Cardinality(ClaimedBy(label)) > 1}

C37_SharedLabelIsAmbiguous ==
    (utilCall.called /\ utilCall.fn = "findLeagueByMessageText") =>
        (SharedBest(utilCall.text) # {} => utilCall.result.threw)


\* ---------------------------------------------------------------------
\* C33: the message handlers are installed only after the user and
\* channel data have been loaded: every lookup a handler makes on
\* bot.users or bot.channels reads an index that a completed refresh has
\* populated.
Completed(tasks) ==
    {tasks[c].new : c \in {d \in 1..Len(tasks) : tasks[d].pc = "done"}}

HandlerLooksUp == seen.called /\ seen.index \in {"users", "channels"}

C33_HandlersAfterDataLoaded ==
    HandlerLooksUp =>
        seen.ref \in Completed(IF seen.index = "users" THEN userTasks
                               ELSE channelTasks)


\* ---------------------------------------------------------------------
\* C34: once start() has called refresh(delay), the refresh cycles keep
\* recurring, whatever the bot's construction flags: while the bot runs,
\* a timer that starts the next cycle one delay later is armed.
Refreshing == started = "running"

C34_NextCycleArmed == Refreshing => timers > 0


\* ---------------------------------------------------------------------
\* C35: when refresh cycles overlap, the active index never regresses:
\* the index a step installs as bot.users (bot.channels) was built by a
\* cycle at least as recent as the cycle that built the one it replaces.
CycleOf(ref, tasks) ==
    LET by == {c \in 1..Len(tasks) : tasks[c].new = ref}
    IN IF by = {} THEN 0 ELSE tasks[CHOOSE c \in by : TRUE].cycle

NoRegress ==
    /\ CycleOf(bot'.users, userTasks') >= CycleOf(bot.users, userTasks')
    /\ CycleOf(bot'.channels, channelTasks') >= CycleOf(bot.channels, channelTasks')

C35_IndexNeverRegresses == [][NoRegress]_vars

====
